---- MODULE Spec2Model ----
(***************************************************************************)
(* Verification model of the proplot plotting wrappers                     *)
(* (src/proplot/axes/plot.py) and of the palette helper                    *)
(* (src/pubplot/todo.py).                                                  *)
(*                                                                         *)
(* The wrappers are functions of their arguments, so each of them is a     *)
(* specification of its own: Init draws a call (variable inp) from bounded *)
(* sets, and one action applies the wrapper and stores what the wrapped    *)
(* method received, or the exception raised (variable out).  The axes      *)
(* property cycler is real state and has its own variables.                *)
(***************************************************************************)
EXTENDS Integers, Sequences, FiniteSets, TLC

VARIABLES inp, out, prop_cycler, last

vars == <<inp, out, prop_cycler, last>>

\* Python's None, where an array is expected
None == [id |-> -1, shape |-> <<>>, isstr |-> FALSE]

\* out before the wrapper has run
Pending == [status |-> "pending"]

\* the axes cycler while a specification does not use it
NoCycler == [cycle |-> <<>>, pos |-> 0]

\* the record of the last cycler operation while there was none
NoOp == [op |-> "none"]

(***************************************************************************)
(* Arrays.  An array is known by its identity, its shape and whether it    *)
(* holds strings: the k-th positional argument has identity k, and         *)
(* np.arange(n) is the array of identity 0 and shape <<n>>.                *)
(***************************************************************************)
\* largest number of positional arguments a call is tried with
MaxArgs == 5

\* largest number of dimensions of an argument
MaxNdim == 3

\* the shape of the d-dimensional test array: 2 x 3 x 2 x ...
ShapeOf(d) == [i \in 1..d |-> IF i % 2 = 1 THEN 2 ELSE 3]

Array(id, shape, isstr) == [id |-> id, shape |-> shape, isstr |-> isstr]

\* np.arange(n)
Arange(n) == Array(0, <<n>>, FALSE)

ndim(a) == Len(a.shape)

\* _to_arraylike: a scalar becomes an array of one element
_to_arraylike(data) ==
    IF ndim(data) = 0 THEN [data EXCEPT !.shape = <<1>>] ELSE data

\* _is_string: the array is not empty and holds strings
_is_string(data) == ndim(data) >= 1 /\ data.shape[1] > 0 /\ data.isstr

\* _axis_labels_title for a numpy array and a given axis: the labels
_axis_labels_title(data, axis) ==
    IF ndim(data) > axis
    THEN Arange(data.shape[axis + 1])
    ELSE data

\* the rest of a sequence from position i on
From(s, i) == SubSeq(s, i, Len(s))

(***************************************************************************)
(* standardize_1d                                                          *)
(***************************************************************************)
Names1d == {"plot", "scatter", "hist", "boxplot", "violinplot", "fill_between"}

\* the k-th positional argument, with d dimensions
Arg(k, d, isstr) == Array(k, ShapeOf(d), isstr)

\* argument lists: the first two arguments vary in dimension, the first
\* one also in holding strings; the others are 1-dimensional
ArgLists1d ==
    {<<>>}
    \cup {<<Arg(1, d, s)>> : d \in 0..MaxNdim, s \in BOOLEAN}
    \cup UNION {{<<Arg(1, d, s), Arg(2, e, FALSE)>>
                   \o [k \in 1..(n - 2) |-> Arg(k + 2, 1, FALSE)] :
                     d \in 0..MaxNdim, e \in 0..MaxNdim, s \in BOOLEAN} :
                n \in 2..MaxArgs}

Inputs1d ==
    [name : Names1d, args : ArgLists1d, means : BOOLEAN, medians : BOOLEAN,
     projection : BOOLEAN]

\* _auto_format_1d: the index version of string coordinates, and the
\* labels keyword
_auto_format_1d(x, name, kwargs) ==
    IF _is_string(x) /\ name = "hist"
    THEN [x_index |-> None,
          kwargs |-> IF kwargs.labels = None
                     THEN [kwargs EXCEPT !.labels = x] ELSE kwargs]
    ELSE IF _is_string(x)
    THEN [x_index |-> Arange(x.shape[1]),
          kwargs |-> IF name = "boxplot"
                     THEN [kwargs EXCEPT !.labels = x] ELSE kwargs]
    ELSE [x_index |-> None, kwargs |-> kwargs]

ValueError == [status |-> "ValueError"]
TypeError == [status |-> "TypeError"]
Called(args, kwargs) == [status |-> "called", args |-> args, kwargs |-> kwargs]

\* the keywords of a call to standardize_1d
Kwargs1d(c) ==
    [means |-> c.means, medians |-> c.medians, labels |-> None,
     positions |-> None]

\* the axis the x coordinates are inferred along
InferAxis(name, kwargs) ==
    IF name \in {"hist", "boxplot", "violinplot"}
       \/ kwargs.means \/ kwargs.medians
    THEN 1 ELSE 0

\* the part of standardize_1d after the positional arguments are split
\* into x, y and the rest
Standardize1dXY(c, x0, y0, args0) ==
    LET name == c.name
        kwargs == Kwargs1d(c)
        fill == Len(args0) >= 1 /\ name = "fill_between"
        ys0 == IF fill THEN <<y0, args0[1]>> ELSE <<y0>>
        args == IF fill THEN Tail(args0) ELSE args0
        ys == [i \in 1..Len(ys0) |-> _to_arraylike(ys0[i])]
        y == ys[1]
        x1 == IF x0 = None
              THEN _axis_labels_title(y, InferAxis(name, kwargs))
              ELSE x0
        x2 == _to_arraylike(x1)
        fmt == IF c.projection
               THEN [x_index |-> None, kwargs |-> kwargs]
               ELSE _auto_format_1d(x2, name, kwargs)
        x == IF fmt.x_index # None THEN fmt.x_index ELSE x2
        kw == IF name \in {"boxplot", "violinplot"}
              THEN [fmt.kwargs EXCEPT !.positions = x]
              ELSE fmt.kwargs
    IN  IF ndim(x2) # 1 THEN ValueError
        ELSE Called(<<x>> \o ys \o args, kw)

standardize_1d_no_limit(c) ==
    LET args == c.args
    IN  IF Len(args) = 0 THEN Called(args, Kwargs1d(c))
        ELSE IF Len(args) = 1
        THEN Standardize1dXY(c, None, args[1], <<>>)
        ELSE Standardize1dXY(c, args[1], args[2], From(args, 3))

standardize_1d(c) ==
    LET args == c.args
    IN  IF Len(args) = 0 THEN Called(args, Kwargs1d(c))
        ELSE IF Len(args) = 1
        THEN Standardize1dXY(c, None, args[1], <<>>)
        ELSE IF Len(args) <= 4
        THEN Standardize1dXY(c, args[1], args[2], From(args, 3))
        ELSE ValueError

Init1d ==
    /\ inp \in Inputs1d
    /\ out = Pending
    /\ prop_cycler = NoCycler
    /\ last = NoOp

CallStandardize1d ==
    /\ out = Pending
    /\ out' = standardize_1d(inp)
    /\ UNCHANGED <<inp, prop_cycler, last>>

Next1d == CallStandardize1d

Spec1d == Init1d /\ [][Next1d]_vars

\* the call has returned or raised
Done == out # Pending

\* C1 (as stated): standardize_1d handles the positional arguments
\* uniformly.  With none, the wrapped method is called unchanged; with one,
\* the argument is y and x is np.arange over axis 0 of y, or over axis 1 for
\* hist, boxplot, violinplot or when means or medians is set; with two to
\* four, the first two are x and y and the rest is forwarded; with more
\* than four, and when x is not 1-dimensional, ValueError is raised and the
\* wrapped method is not called.
C1_Axis == IF inp.name \in {"hist", "boxplot", "violinplot"}
              \/ inp.means \/ inp.medians
           THEN 1 ELSE 0

C1_NoArgs ==
    Len(inp.args) = 0 =>
        /\ out.status = "called"
        /\ out.args = <<>>
        /\ out.kwargs = [means |-> inp.means, medians |-> inp.medians,
                         labels |-> None, positions |-> None]

C1_TwoToFour ==
    Len(inp.args) \in 2..4 =>
        LET x == _to_arraylike(inp.args[1])
        IN  IF ndim(x) # 1
            THEN out.status = "ValueError"
            ELSE /\ out.status = "called"
                 /\ out.args[1] \in {x, Arange(x.shape[1])}
                 /\ out.args[2] = _to_arraylike(inp.args[2])
                 /\ From(out.args, 3) = From(inp.args, 3)

C1_TooMany == Len(inp.args) > 4 => out.status = "ValueError"

MaxDim == 3

Names2d == {"pcolor", "pcolormesh", "pcolorfast", "contourf", "quiver"}

\* the orders tried: the two valid ones and an invalid one
Orders == {"C", "F", "K"}

Last(s) == s[Len(s)]

\* x.T
Transpose(a) == [a EXCEPT !.shape = [i \in 1..Len(a.shape) |->
                                       a.shape[Len(a.shape) + 1 - i]]]

\* _is_number: the array is not empty and holds numbers
_is_number(data) == ndim(data) >= 1 /\ data.shape[1] > 0 /\ ~data.isstr

\* utils.edges: the n + 1 edges of n centers
edges(x) == [x EXCEPT !.shape = <<x.shape[1] + 1>>]

\* utils.edges2d: the edges of a grid of centers
edges2d(x) == [x EXCEPT !.shape = <<x.shape[1] + 1, x.shape[2] + 1>>]

\* 0.5 * (x[1:] + x[:-1])
centers(x) == [x EXCEPT !.shape = <<x.shape[1] - 1>>]

\* 0.25 * (x[:-1, :-1] + x[:-1, 1:] + x[1:, :-1] + x[1:, 1:])
centers2d(x) == [x EXCEPT !.shape = <<x.shape[1] - 1, x.shape[2] - 1>>]

\* all(z.ndim == 1 and z.size > 1 and _is_number(z) for z in (x, y))
BothVectors(x, y) ==
    \A z \in {x, y} : ndim(z) = 1 /\ z.shape[1] > 1 /\ _is_number(z)

\* x.ndim == 2 and x.shape[0] > 1 and x.shape[1] > 1 and _is_number(x)
IsGrid(x) ==
    ndim(x) = 2 /\ x.shape[1] > 1 /\ x.shape[2] > 1 /\ _is_number(x)

Coords(x, y) == [status |-> "ok", x |-> x, y |-> y]

_enforce_centers(x, y, Z) ==
    LET xlen == Last(x.shape)
        ylen == y.shape[1]
    IN  IF ndim(Z) = 2 /\ Z.shape[2] = xlen - 1 /\ Z.shape[1] = ylen - 1
        THEN IF BothVectors(x, y)
             THEN Coords(centers(x), centers(y))
             ELSE Coords(IF IsGrid(x) THEN centers2d(x) ELSE x,
                         IF IsGrid(y) THEN centers2d(y) ELSE y)
        ELSE IF Last(Z.shape) # xlen \/ Z.shape[1] # ylen
        THEN ValueError
        ELSE Coords(x, y)

_enforce_edges_no_check(x, y, Z) ==
    LET xlen == Last(x.shape)
        ylen == y.shape[1]
    IN  IF ndim(Z) = 2 /\ Z.shape[2] = xlen /\ Z.shape[1] = ylen
        THEN IF BothVectors(x, y)
             THEN Coords(edges(x), edges(y))
             ELSE Coords(IF IsGrid(x) THEN edges2d(x) ELSE x,
                         IF IsGrid(y) THEN edges2d(y) ELSE y)
        ELSE Coords(x, y)

_enforce_edges(x, y, Z) ==
    LET xlen == Last(x.shape)
        ylen == y.shape[1]
    IN  IF ndim(Z) = 2 /\ Z.shape[2] = xlen /\ Z.shape[1] = ylen
        THEN IF BothVectors(x, y)
             THEN Coords(edges(x), edges(y))
             ELSE Coords(IF IsGrid(x) THEN edges2d(x) ELSE x,
                         IF IsGrid(y) THEN edges2d(y) ELSE y)
        ELSE IF Last(Z.shape) # xlen - 1 \/ Z.shape[1] # ylen - 1
        THEN ValueError
        ELSE Coords(x, y)

\* _auto_format_2d: the index version of string coordinates
_auto_format_2d(x) == IF _is_string(x) THEN Arange(x.shape[1]) ELSE None

\* np.zeros(Z.shape)
Zeros(Z) == Array(0, Z.shape, FALSE)

\* the keywords the wrapped method receives
Kwargs2d == [colorbar_kw |-> "dict"]

\* the part of standardize_2d after the positional arguments are split
\* into x, y and the data arrays
Standardize2dXY(c, x0, y0, args) ==
    LET name == c.name
        allow_1d == name \in {"barbs", "quiver"}
        Zs == [i \in 1..Len(args) |-> _to_arraylike(args[i])]
        Z == Zs[1]
        dx == Arange(Last(Z.shape))
        dy == IF ndim(Z) = 1 THEN Zeros(Z) ELSE Arange(Z.shape[1])
        inferred == x0 = None /\ y0 = None
        x1 == _to_arraylike(IF ~inferred THEN x0
                             ELSE IF c.order = "F" THEN dy ELSE dx)
        y1 == _to_arraylike(IF ~inferred THEN y0
                             ELSE IF c.order = "F" THEN dx ELSE dy)
        x2 == IF c.order = "F" THEN Transpose(x1) ELSE x1
        y2 == IF c.order = "F" THEN Transpose(y1) ELSE y1
        Zt == IF c.order = "F"
              THEN [i \in 1..Len(Zs) |-> Transpose(Zs[i])] ELSE Zs
        x_index == IF c.projection THEN None ELSE _auto_format_2d(x2)
        y_index == IF c.projection THEN None ELSE _auto_format_2d(y2)
        x == IF x_index # None THEN x_index ELSE x2
        y == IF y_index # None THEN y_index ELSE y2
        xy == IF name \in {"pcolor", "pcolormesh", "pcolorfast"}
              THEN _enforce_edges(x, y, Zt[1])
              ELSE _enforce_centers(x, y, Zt[1])
    IN  IF c.order \notin {"C", "F"} THEN ValueError
        ELSE IF \E i \in 1..Len(Zs) :
                    ndim(Zs[i]) # 2 /\ ~(allow_1d /\ ndim(Zs[i]) = 1)
        THEN ValueError
        ELSE IF \E i \in 1..Len(Zs) : Zs[i].shape # Z.shape
        THEN ValueError
        ELSE IF ndim(x1) # ndim(y1) THEN ValueError
        ELSE IF ndim(x1) \notin {1, 2} THEN ValueError
        ELSE IF xy = ValueError THEN ValueError
        ELSE Called(<<xy.x, xy.y>> \o Zt, Kwargs2d)

standardize_2d(c) ==
    LET args == c.args
    IN  IF Len(args) = 0 THEN Called(args, Kwargs2d)
        ELSE IF Len(args) > 5 THEN TypeError
        ELSE IF Len(args) > 2
        THEN Standardize2dXY(c, args[1], args[2], From(args, 3))
        ELSE Standardize2dXY(c, None, None, args)

\* the shapes of the data arrays: 2-dimensional, 1-dimensional, and one
\* 3-dimensional
ZShapes ==
    {<<m, n>> : m \in 1..MaxDim, n \in 1..MaxDim}
    \cup {<<n>> : n \in 1..MaxDim}
    \cup {<<1, 1, 1>>}

\* the pairs of shapes of the coordinates: two vectors, two grids of one
\* shape, or a vector and a grid
CoordShapes ==
    {<<<<a>>, <<b>>>> : a \in 1..(MaxDim + 1), b \in 1..(MaxDim + 1)}
    \cup {<<<<a, b>>, <<a, b>>>> : a \in 1..(MaxDim + 1), b \in 1..(MaxDim + 1)}
    \cup {<<<<2>>, <<2, 2>>>>}

\* the data arrays of a call: one, two of one shape, two of different
\* shapes, or six
DataLists(zs) ==
    {<<Array(3, zs, FALSE)>>,
     <<Array(3, zs, FALSE), Array(4, zs, FALSE)>>,
     <<Array(3, zs, FALSE), Array(4, <<MaxDim + 1, MaxDim + 1>>, FALSE)>>,
     [k \in 1..6 |-> Array(k + 2, zs, FALSE)]}

ArgLists2d ==
    {<<>>}
    \cup UNION {DataLists(zs) : zs \in ZShapes}
    \cup UNION {{<<Array(1, cs[1], s), Array(2, cs[2], FALSE)>> \o d :
                    d \in {e \in DataLists(zs) : Len(e) <= 2},
                    cs \in CoordShapes, s \in BOOLEAN} :
                zs \in ZShapes}

Inputs2d ==
    [name : Names2d, order : Orders, args : ArgLists2d, projection : BOOLEAN]

Init2d ==
    /\ inp \in Inputs2d
    /\ out = Pending
    /\ prop_cycler = NoCycler
    /\ last = NoOp

CallStandardize2d ==
    /\ out = Pending
    /\ out' = standardize_2d(inp)
    /\ UNCHANGED <<inp, prop_cycler, last>>

Next2d == CallStandardize2d

Spec2d == Init2d /\ [][Next2d]_vars

\* a call with 1-dimensional numeric x and y and 2-dimensional data arrays
\* of one shape, in the default order
C2_Pre ==
    /\ Done
    /\ inp.order = "C"
    /\ Len(inp.args) \in 3..5
    /\ ndim(inp.args[1]) = 1 /\ ndim(inp.args[2]) = 1
    /\ ~inp.args[1].isstr /\ ~inp.args[2].isstr
    /\ ndim(inp.args[3]) = 2
    /\ \A i \in 3..Len(inp.args) : inp.args[i].shape = inp.args[3].shape

C2_m == inp.args[3].shape[1]
C2_n == inp.args[3].shape[2]
C2_xlen == inp.args[1].shape[1]
C2_ylen == inp.args[2].shape[1]
C2_Centers == C2_xlen = C2_n /\ C2_ylen = C2_m
C2_Edges == C2_xlen = C2_n + 1 /\ C2_ylen = C2_m + 1
C2_WantsEdges == inp.name \in {"pcolor", "pcolormesh", "pcolorfast"}

\* the wrapped method was called with x of length xl and y of length yl
C2_Received(xl, yl) ==
    /\ out.status = "called"
    /\ out.args[1].shape = <<xl>>
    /\ out.args[2].shape = <<yl>>

LevelBelow == 1
LevelHi == 3

\* the data limits and the caller's limits lie in 0 .. MaxData
MaxData == 2

RECURSIVE Sorted(_)
\* the elements of a set of numbers in increasing order
Sorted(S) ==
    IF S = {} THEN <<>>
    ELSE LET lo == CHOOSE x \in S : \A y \in S : x <= y
         IN  <<lo>> \o Sorted(S \ {lo})

Levels(den, nums) == [status |-> "levels", den |-> den, nums |-> nums]

\* np.linspace(a, b, n) of integers a and b
linspace(a, b, n) ==
    IF n = 1 THEN Levels(1, <<a>>)
    ELSE Levels(n - 1, [i \in 1..n |-> a * (n - 1) + (i - 1) * (b - a)])

\* the data limits used: the caller's, or the minimum and maximum of the
\* data, or 0 and 1 when those coincide
Limits(c) ==
    LET automin == c.vmin = <<>>
        automax == c.vmax = <<>>
        lo == IF automin THEN c.dmin ELSE c.vmin[1]
        hi == IF automax THEN c.dmax ELSE c.vmax[1]
    IN  IF (automin \/ automax) /\ lo = hi
        THEN [vmin |-> 0, vmax |-> 1]
        ELSE [vmin |-> lo, vmax |-> hi]

\* levels[i0:i1]
Slice(s, i0, i1) ==
    IF i1 <= i0 THEN <<>> ELSE [k \in 1..(i1 - i0) |-> s[i0 + k]]

\* the trimming of the excess levels the locator may have supplied
Trim(c, lim, lev) ==
    LET n == Len(lev.nums)
        automin == c.vmin = <<>>
        automax == c.vmax = <<>>
        IsUnder(i) == lev.nums[i + 1] < lim.vmin * lev.den
        IsOver(i) == lev.nums[i + 1] > lim.vmax * lev.den
        under == Sorted({i \in 0..(n - 1) : IsUnder(i)})
        over == Sorted({i \in 0..(n - 1) : IsOver(i)})
        i0 == IF Len(under) > 0
              THEN under[Len(under)]
                   + (IF ~automin \/ c.extend \in {"min", "both"} THEN 1 ELSE 0)
              ELSE 0
        i1 == IF Len(over) > 0
              THEN over[1] + 1
                   - (IF ~automax \/ c.extend \in {"max", "both"} THEN 1 ELSE 0)
              ELSE n
    IN  IF i1 - i0 < 3 THEN lev
        ELSE Levels(lev.den, Slice(lev.nums, i0, i1))

\* nn - 1 extra levels between each two levels, for the linear normalizer
Interpolate(lev, nn) ==
    LET n == Len(lev.nums)
        a == lev.nums
    IN  Levels(lev.den * nn,
               [k \in 1..((n - 1) * nn + 1) |->
                   LET i == ((k - 1) \div nn) + 1
                       j == (k - 1) % nn
                   IN  IF i = n THEN a[n] * nn
                       ELSE a[i] * nn + j * (a[i + 1] - a[i])])

_auto_levels_locator(c) ==
    LET N == c.N
        sym == c.symmetric \/ c.positive \/ c.negative
        lim == Limits(c)
        l0 == IF c.toomany THEN linspace(lim.vmin, lim.vmax, N)
              ELSE Levels(1, c.ticks)
        l1 == IF ~sym THEN Trim(c, lim, l0) ELSE l0
        nn == N \div Len(l1.nums)
        l2 == IF nn >= 2 THEN Interpolate(l1, nn) ELSE l1
        NonZero(v) == v # 0
        NonNeg(v) == v >= 0
        NonPos(v) == v <= 0
        l3 == IF c.nozero /\ \E i \in 1..Len(l2.nums) : l2.nums[i] = 0
              THEN Levels(l2.den, SelectSeq(l2.nums, NonZero)) ELSE l2
        l4 == IF c.positive THEN Levels(l3.den, SelectSeq(l3.nums, NonNeg))
              ELSE l3
        l5 == IF c.negative THEN Levels(l4.den, SelectSeq(l4.nums, NonPos))
              ELSE l4
    IN  IF c.positive /\ c.negative THEN ValueError ELSE l5

\* the increasing lists a locator may propose
TickLists == {Sorted(S) : S \in SUBSET ((0 - LevelBelow)..LevelHi) \ {{}}}

\* the level counts tried
LevelCounts == {1, 4}

InputsLevels ==
    {c \in [N : LevelCounts,
            vmin : {<<>>} \cup {<<v>> : v \in 0..(MaxData - 1)},
            vmax : {<<>>} \cup {<<v>> : v \in 1..MaxData},
            dmin : 0..MaxData, dmax : 0..MaxData,
            extend : {"neither", "min", "max", "both"},
            ticks : TickLists \cup {<<>>}, toomany : BOOLEAN,
            symmetric : BOOLEAN, positive : BOOLEAN, negative : BOOLEAN,
            nozero : BOOLEAN] :
        /\ c.dmin <= c.dmax
        /\ c.dmin \in {0, c.dmax, c.dmax - 1}
        /\ (c.vmin # <<>> /\ c.vmax # <<>>) => c.vmin[1] < c.vmax[1]
        /\ c.toomany <=> c.ticks = <<>>
        /\ c.positive => ~c.symmetric
        /\ c.negative => ~c.symmetric}

InitLevels ==
    /\ inp \in InputsLevels
    /\ out = Pending
    /\ prop_cycler = NoCycler
    /\ last = NoOp

CallAutoLevelsLocator ==
    /\ out = Pending
    /\ out' = _auto_levels_locator(inp)
    /\ UNCHANGED <<inp, prop_cycler, last>>

NextLevels == CallAutoLevelsLocator

SpecLevels == InitLevels /\ [][NextLevels]_vars

\* the limits the levels are claimed to stay in: the caller's values or,
\* if not provided, the minimum and maximum of the data
C3_vmin == IF inp.vmin = <<>> THEN inp.dmin ELSE inp.vmin[1]
C3_vmax == IF inp.vmax = <<>> THEN inp.dmax ELSE inp.vmax[1]

\* C3: with an integer level count, no generated level is smaller than vmin
\* or larger than vmax, for every increasing list the locator proposes and
\* every extend setting.
C3_LevelsInsideLimits ==
    (Done /\ out.status = "levels") =>
        \A i \in 1..Len(out.nums) :
            /\ out.nums[i] >= C3_vmin * out.den
            /\ out.nums[i] <= C3_vmax * out.den

(***************************************************************************)
(* The axes property cycler and _update_cycle.  A cycle is a sequence of   *)
(* property entries (functions from keys to values) of one key set.  The   *)
(* axes hold itertools.cycle(cycle): the cycle and the 0-based position of *)
(* the entry that next() returns.                                          *)
(***************************************************************************)
\* largest number of entries of a cycle
MaxCycleLen == 3

Colors == {"r", "g"}

\* the property entries: a color, or a color and a marker
Entries(keys) ==
    IF "marker" \in keys
    THEN {[color |-> c, marker |-> "o"] : c \in Colors}
    ELSE {[color |-> c] : c \in Colors}

Cycles ==
    UNION {UNION {[1..n -> Entries(keys)] : n \in 1..MaxCycleLen} :
           keys \in {{"color"}, {"color", "marker"}}}

\* itertools.cycle(cycle)
Cycler(cycle) == [cycle |-> cycle, pos |-> 0]

\* the entry next() returns
Peek(cycler) == cycler.cycle[cycler.pos + 1]

\* the cycler after k calls of next()
Advance(cycler, k) ==
    [cycler EXCEPT !.pos = (cycler.pos + k) % Len(cycler.cycle)]

\* the entries that k calls of next() return
Draws(cycler, k) == [i \in 1..k |-> Peek(Advance(cycler, i - 1))]

\* cycle.by_key() with the values of each key as a set
by_key(entries) ==
    [key \in UNION {DOMAIN entries[i] : i \in 1..Len(entries)} |->
        {entries[i][key] : i \in {j \in 1..Len(entries) :
                                    key \in DOMAIN entries[j]}}]

\* _update_cycle: the cycler of the axes afterwards, and whether
\* set_prop_cycle was called
_update_cycle_always_reset(cycle_orig, cycle) ==
    [cycler |-> Cycler(cycle), reset |-> TRUE]

_update_cycle(cycle_orig, cycle) ==
    LET drawn == by_key(Draws(cycle_orig, Len(cycle)))
        wanted == by_key(cycle)
        reset == \/ DOMAIN drawn # DOMAIN wanted
                 \/ \E key \in DOMAIN wanted : drawn[key] # wanted[key]
    IN  IF reset
        THEN [cycler |-> Cycler(cycle), reset |-> TRUE]
        ELSE [cycler |-> Advance(cycle_orig, Len(cycle)), reset |-> FALSE]

InitCycle ==
    /\ inp = None
    /\ out = Pending
    /\ prop_cycler \in {Cycler(c) : c \in Cycles}
    /\ last = NoOp

\* a plotting command takes the next properties from the cycler
NextProp ==
    /\ last' = [op |-> "next", prop |-> Peek(prop_cycler)]
    /\ prop_cycler' = Advance(prop_cycler, 1)
    /\ UNCHANGED <<inp, out>>

\* cycle_changer is called with a cycle
CycleChanger ==
    \E cycle \in Cycles :
        LET r == _update_cycle(prop_cycler, cycle)
        IN  /\ prop_cycler' = r.cycler
            /\ last' = [op |-> "cycle_changer", cycle |-> cycle,
                        before |-> prop_cycler, reset |-> r.reset]
            /\ UNCHANGED <<inp, out>>

NextCycle == NextProp \/ CycleChanger

SpecCycle == InitCycle /\ [][NextCycle]_vars

\* cycle_changer has just checked a cycle
C4_Checked == last.op = "cycle_changer"

\* C4: a cycle that is the same sequence of entries as the current cycle
\* of the axes does not reset the cycler: set_prop_cycle is not called and
\* the next entry drawn is the one that would have been drawn without the
\* call, whatever the position of the cycler.
C4_SameCycleNotReset ==
    (C4_Checked /\ last.cycle = last.before.cycle) =>
        /\ ~last.reset
        /\ prop_cycler.cycle = last.before.cycle
        /\ Peek(prop_cycler) = Peek(last.before)

\* the current cycle was passed while the cycler was past its first entry
C4_Witness ==
    /\ C4_Checked
    /\ last.cycle = last.before.cycle
    /\ last.before.pos = 1
    /\ last.cycle[1] # last.cycle[2]
    /\ Peek(prop_cycler) = last.cycle[2]

\* C5: a cycle that differs from the current cycle of the axes in its
\* keys, its values or the order of its values resets the cycler to the
\* requested cycle: the properties drawn next are the entries of the
\* requested cycle in order, from its first entry on.
C5_DifferentCycleReset ==
    (C4_Checked /\ last.cycle # last.before.cycle) =>
        Draws(prop_cycler, 2 * MaxCycleLen)
            = Draws(Cycler(last.cycle), 2 * MaxCycleLen)

(***************************************************************************)
(* scatter_wrapper, with smin, smax, cmap and norm left at None            *)
(***************************************************************************)
\* args.pop(i): the popped element and the remaining list
Pop(args, i) ==
    [value |-> args[i + 1],
     rest |-> SubSeq(args, 1, i) \o SubSeq(args, i + 2, Len(args))]

\* _not_none(a, b): the first argument that is not None
_not_none(a, b) == IF a # None THEN a ELSE b

\* np.ravel of an array
Ravel(a) ==
    IF ndim(a) = 2 THEN [a EXCEPT !.shape = <<a.shape[1] * a.shape[2]>>] ELSE a

scatter_wrapper(call) ==
    LET args0 == call.args
        four == Len(args0) = 4
        c1 == IF four THEN Pop(args0, 1).value ELSE call.c
        args1 == IF four THEN Pop(args0, 1).rest ELSE args0
        three == Len(args1) = 3
        s1 == IF three THEN Pop(args1, 0).value ELSE call.s
        args2 == IF three THEN Pop(args1, 0).rest ELSE args1
        c == _not_none(c1, call.color)
        sz == _not_none(s1, call.size)
        args3 == IF Len(args2) = 2 /\ \A i \in 1..2 : ndim(args2[i]) > 1
                 THEN [i \in 1..2 |-> Ravel(args2[i])]
                 ELSE args2
    IN  IF Len(args0) > 4 THEN ValueError
        ELSE Called(args3, [c |-> c, s |-> sz])

\* the positional arguments x, y, s, c, ...: x and y 1- or 2-dimensional
ArgListsScatter ==
    UNION {{[k \in 1..n |-> Arg(k, IF k <= 2 THEN d ELSE 1, FALSE)] :
               d \in 1..2} : n \in 0..MaxArgs}

\* a keyword argument: None, or the array of identity k
Keyword(k) == {None, Arg(k, 1, FALSE)}

InputsScatter ==
    [args : ArgListsScatter, s : Keyword(11), size : Keyword(12),
     c : Keyword(13), color : Keyword(14)]

InitScatter ==
    /\ inp \in InputsScatter
    /\ out = Pending
    /\ prop_cycler = NoCycler
    /\ last = NoOp

CallScatterWrapper ==
    /\ out = Pending
    /\ out' = scatter_wrapper(inp)
    /\ UNCHANGED <<inp, prop_cycler, last>>

NextScatter == CallScatterWrapper

SpecScatter == InitScatter /\ [][NextScatter]_vars

\* C6: scatter_wrapper reads its positional arguments as x, y, s, c: with
\* four, x and y are forwarded as the coordinates, the third is the marker
\* size and the fourth the colour; with three, x and y are forwarded and
\* the third is the marker size; more than four raise ValueError.
C6_ScatterPositional ==
    Done =>
        /\ Len(inp.args) = 4 =>
               /\ out.status = "called"
               /\ Len(out.args) = 2
               /\ \A i \in 1..2 : out.args[i].id = inp.args[i].id
               /\ out.kwargs.s = inp.args[3]
               /\ out.kwargs.c = inp.args[4]
        /\ Len(inp.args) = 3 =>
               /\ out.status = "called"
               /\ Len(out.args) = 2
               /\ \A i \in 1..2 : out.args[i].id = inp.args[i].id
               /\ out.kwargs.s = inp.args[3]
        /\ Len(inp.args) > 4 => out.status = "ValueError"


(***************************************************************************)
(* _single_legend.  A handle and label pair is known by its position in    *)
(* the input list.                                                         *)
(***************************************************************************)
\* largest number of legend entries and of legend columns
MaxPairs == 7
MaxNcol == 4

\* a missing ncol (Python's None)
NoNcol == 0

Min(a, b) == IF a < b THEN a ELSE b

\* pairs[a:b]
PySlice(pairs, a, b) == Slice(pairs, Min(a, Len(pairs)), Min(b, Len(pairs)))

RECURSIVE Concat(_)
\* the concatenation of a sequence of sequences
Concat(ss) == IF ss = <<>> THEN <<>> ELSE Head(ss) \o Concat(Tail(ss))

\* the pairs in the order the Legend receives them
ReorderNone(pairs, ncol) == pairs

Reorder(pairs, ncol) ==
    LET split == [i \in 1..(Len(pairs) \div ncol + 1) |->
                     PySlice(pairs, (i - 1) * ncol, i * ncol)]
        nrows_max == Len(split)
        ncols_final == Len(split[Len(split)])
        nrows == [col \in 1..ncol |->
                     IF col <= ncols_final THEN nrows_max ELSE nrows_max - 1]
    IN  Concat([col \in 1..ncol |->
                   [row \in 1..nrows[col] |-> split[row][col]]])

_single_legend(call) ==
    LET ncol == IF call.ncol # NoNcol THEN call.ncol ELSE 3
        pairs == IF call.order = "C" THEN Reorder(call.pairs, ncol)
                 ELSE call.pairs
    IN  [status |-> "called", pairs |-> pairs, ncol |-> ncol]

InputsLegend ==
    [pairs : {[i \in 1..n |-> i] : n \in 1..MaxPairs},
     ncol : {NoNcol} \cup 1..MaxNcol,
     order : {"C", "F"}]

InitLegend ==
    /\ inp \in InputsLegend
    /\ out = Pending
    /\ prop_cycler = NoCycler
    /\ last = NoOp

CallSingleLegend ==
    /\ out = Pending
    /\ out' = _single_legend(inp)
    /\ UNCHANGED <<inp, prop_cycler, last>>

NextLegend == CallSingleLegend

SpecLegend == InitLegend /\ [][NextLegend]_vars

\* the entries of a legend of ncol columns read row by row, when the
\* legend fills its columns top to bottom and the first n mod ncol columns
\* hold one entry more than the others
C7_ReadByRows(entries, ncol) ==
    LET n == Len(entries)
        q == n \div ncol
        r == n % ncol
        offset(col) == col * q + Min(col, r)
    IN  [k \in 1..n |-> entries[offset((k - 1) % ncol) + (k - 1) \div ncol + 1]]

\* C7: with order 'C' the Legend receives a permutation of the pairs that
\* reads, row by row, as the pairs in their input order.
C7_RowMajor ==
    (Done /\ inp.order = "C") =>
        /\ Len(out.pairs) = Len(inp.pairs)
        /\ {out.pairs[i] : i \in 1..Len(out.pairs)}
               = {inp.pairs[i] : i \in 1..Len(inp.pairs)}
        /\ C7_ReadByRows(out.pairs, out.ncol) = inp.pairs

\* five pairs were laid out in two columns, and the order was changed
C7_Witness ==
    /\ Done
    /\ inp.order = "C"
    /\ Len(inp.pairs) = 5
    /\ out.ncol = 2
    /\ out.pairs = <<1, 3, 5, 2, 4>>

(***************************************************************************)
(* _generate_mappable: the values given to the entries of the colorbar.    *)
(* Values are rationals with one denominator, like levels.                 *)
(***************************************************************************)
\* largest number of colours or handles of a colorbar
MaxMappable == 3

\* values=None
NoValues == [status |-> "None"]

\* np.arange(n) as values
arange(n) == Levels(1, [i \in 1..n |-> i - 1])

\* the labels of the handles: numbers, a text, no label, a hidden label
Labels == {"1", "2", "a", "", "_b"}

\* float(lab), where it does not raise
IsFloat(lab) == lab \in {"1", "2"}
Float(lab) == IF lab = "1" THEN 1 ELSE 2

\* a label as _generate_mappable keeps it: None (the empty string here)
\* when it is empty or starts with an underscore
KeptLabel(lab) == IF lab = "" \/ lab = "_b" THEN "" ELSE lab

Mappables ==
    {[kind |-> "colormap", N |-> n, items |-> <<>>] : n \in 1..MaxMappable}
    \cup {[kind |-> "colors", N |-> 0, items |-> cs] :
             cs \in UNION {[1..n -> Colors] : n \in 1..MaxMappable}}
    \cup {[kind |-> "artists", N |-> 0, items |-> ls] :
             ls \in UNION {[1..n -> Labels] : n \in 1..MaxMappable}}
    \cup {[kind |-> "other", N |-> 0, items |-> <<>>]}

\* the values of a list of artists without values: their labels as
\* numbers, or the default when a label is not a number
ArtistValues(labels) ==
    IF \E i \in 1..Len(labels) : ~IsFloat(KeptLabel(labels[i]))
    THEN arange(Len(labels))
    ELSE Levels(1, [i \in 1..Len(labels) |-> Float(labels[i])])

_generate_mappable(mappable, values) ==
    LET vals == IF mappable.kind = "colormap"
                THEN linspace(0, 1, mappable.N)
                ELSE IF values # NoValues THEN values
                ELSE IF mappable.kind = "colors"
                THEN arange(Len(mappable.items))
                ELSE ArtistValues(mappable.items)
    IN  IF mappable.kind = "other" THEN ValueError
        ELSE IF mappable.kind # "colormap"
                /\ Len(vals.nums) # Len(mappable.items)
        THEN ValueError
        ELSE [status |-> "mappable", values |-> vals]

InputsMappable ==
    [mappable : Mappables,
     values : {NoValues}
              \cup {Levels(1, [i \in 1..n |-> 10 * i]) : n \in 1..MaxMappable}]

InitMappable ==
    /\ inp \in InputsMappable
    /\ out = Pending
    /\ prop_cycler = NoCycler
    /\ last = NoOp

CallGenerateMappable ==
    /\ out = Pending
    /\ out' = _generate_mappable(inp.mappable, inp.values)
    /\ UNCHANGED <<inp, prop_cycler, last>>

NextMappable == CallGenerateMappable

SpecMappable == InitMappable /\ [][NextMappable]_vars

\* two lists of rationals are equal
SameValues(a, b) ==
    /\ Len(a.nums) = Len(b.nums)
    /\ \A i \in 1..Len(a.nums) : a.nums[i] * b.den = b.nums[i] * a.den

\* C8: for a list of colours, or a list of handles whose labels are not
\* all numbers, and values=None, the values of the entries are
\* np.linspace(0, 1, len(mappable)).
C8_DefaultValuesLinspace ==
    (/\ Done
     /\ inp.values = NoValues
     /\ \/ inp.mappable.kind = "colors"
        \/ /\ inp.mappable.kind = "artists"
           /\ \E i \in 1..Len(inp.mappable.items) :
                  inp.mappable.items[i] \notin {"1", "2"}) =>
        /\ out.status = "mappable"
        /\ SameValues(out.values, linspace(0, 1, Len(inp.mappable.items)))

(***************************************************************************)
(* indicate_error: the error objects drawn and their colours               *)
(***************************************************************************)
\* a colour argument that was omitted (Python's None)
NoColor == "None"

RECURSIVE FirstColor(_)
\* _not_none(*args) for colours: the first argument that is not None
FirstColor(args) ==
    IF args = <<>> THEN NoColor
    ELSE IF Head(args) # NoColor THEN Head(args)
    ELSE FirstColor(Tail(args))

ErrObj(kind, color) == [kind |-> kind, color |-> color]

\* errobjs[i].set_facecolor(color), with i counted from 0
SetFacecolor(errobjs, i, color) == [errobjs EXCEPT ![i + 1].color = color]

\* the loop that applies the inferred colours: the error objects after
\* the pairs (drawn, infer) from position k on, with the index at i
RECURSIVE ApplyInferred(_, _, _, _, _)
ApplyInferred(errobjs, todo, k, i, color) ==
    IF k > Len(todo) THEN errobjs
    ELSE IF todo[k].b /\ todo[k].infer
    THEN ApplyInferred(IF color # NoColor
                       THEN SetFacecolor(errobjs, i, color) ELSE errobjs,
                       todo, k + 1, i + 1, color)
    ELSE ApplyInferred(errobjs, todo, k + 1, i, color)

indicate_error(c) ==
    LET none == ~(c.bars \/ c.boxes \/ c.shading \/ c.fading)
        bars == c.bars \/ (c.means /\ none)
        boxes == c.boxes \/ (c.means /\ none)
        edgecolor == FirstColor(<<IF c.name \in {"bar", "violinplot"}
                                  THEN c.edgecolor ELSE NoColor, "k">>)
        barcolor == FirstColor(<<c.barcolor, edgecolor>>)
        boxcolor == FirstColor(<<c.boxcolor, barcolor>>)
        shadecolor_infer == c.shadecolor = NoColor
        shadecolor == FirstColor(<<c.shadecolor, c.color, c.facecolor,
                                   edgecolor>>)
        fadecolor_infer == c.fadecolor = NoColor
        fadecolor == FirstColor(<<c.fadecolor, shadecolor>>)
        errobjs == (IF c.fading THEN <<ErrObj("fade", fadecolor)>> ELSE <<>>)
                   \o (IF c.shading THEN <<ErrObj("shade", shadecolor)>>
                       ELSE <<>>)
                   \o (IF boxes THEN <<ErrObj("box", boxcolor)>> ELSE <<>>)
                   \o (IF bars THEN <<ErrObj("bar", barcolor)>> ELSE <<>>)
        todo == <<[b |-> c.fading, infer |-> fadecolor_infer],
                  [b |-> c.shading, infer |-> shadecolor_infer]>>
    IN  [status |-> "returned",
         errobjs |-> ApplyInferred(errobjs, todo, 1, 0, c.primary)]

\* the calls: which error data were given, the colours given, and the
\* colour of the primary artist (None when it has neither get_facecolor
\* nor get_color)
InputsError ==
    [name : {"plot", "bar", "violinplot"},
     means : BOOLEAN,
     bars : BOOLEAN, boxes : BOOLEAN, shading : BOOLEAN, fading : BOOLEAN,
     barcolor : {NoColor}, boxcolor : {NoColor, "navy"},
     shadecolor : {NoColor, "red"}, fadecolor : {NoColor, "blue"},
     color : {NoColor, "green"}, facecolor : {NoColor},
     edgecolor : {NoColor, "gray"},
     primary : {NoColor, "C0"}]

InitError ==
    /\ inp \in InputsError
    /\ out = Pending
    /\ prop_cycler = NoCycler
    /\ last = NoOp

CallIndicateError ==
    /\ out = Pending
    /\ out' = indicate_error(inp)
    /\ UNCHANGED <<inp, prop_cycler, last>>

NextError == CallIndicateError

SpecError == InitError /\ [][NextError]_vars

\* the colour of the drawn error object of a kind
C9_ColorOf(kind) ==
    LET i == CHOOSE j \in 1..Len(out.errobjs) : out.errobjs[j].kind = kind
    IN  out.errobjs[i].color

\* C9: each drawn shade or fade object whose colour was omitted has the
\* colour of the primary artist after the call, and each one whose colour
\* was given keeps the given colour.
C9_ShadingInheritsColor ==
    (Done /\ inp.primary # NoColor) =>
        /\ inp.fading =>
               C9_ColorOf("fade") = IF inp.fadecolor = NoColor
                                    THEN inp.primary ELSE inp.fadecolor
        /\ inp.shading =>
               C9_ColorOf("shade") = IF inp.shadecolor = NoColor
                                     THEN inp.primary ELSE inp.shadecolor

(***************************************************************************)
(* color_palette, for palette=None, a list of colours or a name, and       *)
(* desat=None.  A colour of a list or of a seaborn palette is the number   *)
(* its hex code writes (#4C72B0 is 5010096), and to_rgb makes it an RGB    *)
(* triple, each channel in 255ths.  A colour that hls_palette,             *)
(* husl_palette, cubehelix_palette or mpl_palette generates is already an  *)
(* RGB tuple, which to_rgb leaves as it is; its value is not computed, it  *)
(* is known by its generator, its position and the number of positions.    *)
(***************************************************************************)
\* largest number of colours of a list passed as palette, and largest
\* n_colors asked for
MaxListLen == 3
MaxColors == 7

\* n_colors=None
NoCount == -1

SEABORN_PALETTES ==
    [name \in {"deep", "deep6", "muted", "muted6", "pastel", "pastel6", "bright", "bright6", "dark", "dark6", "colorblind", "colorblind6"} |->
        CASE name = "deep" ->
               <<5010096, 14517330, 5613672, 12865106, 8483507,
                 9664608, 14322627, 9211020, 13416820, 6600141>>
          [] name = "deep6" ->
               <<5010096, 5613672, 12865106, 8483507, 13416820,
                 6600141>>
          [] name = "muted" ->
               <<4749520, 15631690, 6999140, 14049119, 9792692,
                 9199932, 14450368, 7960953, 14007143, 8570594>>
          [] name = "muted6" ->
               <<4749520, 6999140, 14049119, 9792692, 14007143,
                 8570594>>
          [] name = "pastel" ->
               <<10602996, 16757890, 9299361, 16752539, 13679615,
                 14597019, 16429284, 13619151, 16776867, 12186352>>
          [] name = "pastel6" ->
               <<10602996, 9299361, 16752539, 13679615, 16776867,
                 12186352>>
          [] name = "bright" ->
               <<147199, 16743424, 1755448, 15204363, 9120738,
                 10438656, 15813825, 10724259, 16761856, 55295>>
          [] name = "bright6" ->
               <<147199, 1755448, 15204363, 9120738, 16761856,
                 55295>>
          [] name = "dark" ->
               <<7295, 11616269, 1208604, 9177088, 5840497,
                 5844749, 10630530, 3947580, 12092682, 25460>>
          [] name = "dark6" ->
               <<7295, 1208604, 9177088, 5840497, 12092682,
                 25460>>
          [] name = "colorblind" ->
               <<95154, 14585605, 171635, 13983232, 13400252,
                 13275489, 16494564, 9737364, 15524147, 5682409>>
          [] name = "colorblind6" ->
               <<95154, 171635, 13983232, 13400252, 15524147,
                 5682409>>]

MPL_QUAL_PALS ==
    [name \in {"tab10", "tab20", "tab20b", "tab20c", "Set1", "Set2", "Set3",
               "Accent", "Paired", "Pastel1", "Pastel2", "Dark2"} |->
        CASE name \in {"tab10"} -> 10
          [] name \in {"tab20", "tab20b", "tab20c"} -> 20
          [] name \in {"Set1", "Pastel1"} -> 9
          [] name \in {"Set2", "Accent", "Pastel2", "Dark2"} -> 8
          [] name \in {"Set3", "Paired"} -> 12]

\* QUAL_PALETTE_SIZES: MPL_QUAL_PALS updated with the sizes of the seaborn
\* palettes
QUAL_PALETTE_SIZES ==
    [name \in DOMAIN MPL_QUAL_PALS \cup DOMAIN SEABORN_PALETTES |->
        IF name \in DOMAIN SEABORN_PALETTES
        THEN Len(SEABORN_PALETTES[name])
        ELSE MPL_QUAL_PALS[name]]

\* the names tried that are neither seaborn palettes nor qualitative
\* matplotlib palettes: the two hue circles, a cubehelix string, matplotlib
\* colormaps (one of them a "dark" variant), and a name of nothing
CubehelixNames == {"ch:2.5,-.2,dark=.3"}
MplCmapNames == {"RdBu", "viridis", "Blues_d"}
InvalidNames == {"nope"}

\* QUAL_PALETTE_SIZES.get(palette, 6)
DefaultCount(name) ==
    IF name \in DOMAIN QUAL_PALETTE_SIZES THEN QUAL_PALETTE_SIZES[name] ELSE 6

\* the n colours a generator returns: colour i of n positions
Generated(gen, n, of) == [i \in 1..n |-> [gen |-> gen, i |-> i, of |-> of]]

\* mpl_palette: the colours at the first n_colors of the palette's own
\* positions for a qualitative palette, at n_colors positions otherwise
mpl_palette(name, n_colors) ==
    IF name \in DOMAIN MPL_QUAL_PALS
    THEN Generated(name, Min(n_colors, MPL_QUAL_PALS[name]), MPL_QUAL_PALS[name])
    ELSE Generated(name, n_colors, n_colors)

\* mpl.colors.colorConverter.to_rgb of a hex code
to_rgb(hex) == <<hex \div 65536, (hex \div 256) % 256, hex % 256>>

\* [next(pal_cycle) for _ in range(n_colors)], pal_cycle = cycle(palette)
TakeTruncated(palette, n_colors) ==
    [i \in 1..Min(n_colors, Len(palette)) |-> palette[i]]

TakeCycled(palette, n_colors) ==
    [i \in 1..n_colors |-> palette[((i - 1) % Len(palette)) + 1]]

color_palette(c) ==
    LET p == c.palette
        named == p.kind = "name"
        n_colors == IF c.n_colors # NoCount THEN c.n_colors
                    ELSE IF named THEN DefaultCount(p.name)
                    ELSE Len(p.colors)
        seaborn == named /\ p.name \in DOMAIN SEABORN_PALETTES
        palette == IF ~named THEN p.colors
                   ELSE IF seaborn THEN SEABORN_PALETTES[p.name]
                   ELSE IF p.name \in {"hls", "husl"} \cup CubehelixNames
                   THEN Generated(p.name, n_colors, n_colors)
                   ELSE mpl_palette(p.name, n_colors)
        cycled == TakeCycled(palette, n_colors)
    IN  IF named /\ p.name \in InvalidNames THEN ValueError
        ELSE [status |-> "returned",
              palette |-> IF ~named \/ seaborn
                          THEN [i \in 1..Len(cycled) |-> to_rgb(cycled[i])]
                          ELSE cycled]

\* the colours of the lists: red, green and blue
HexColors == {16711680, 65280, 255}

ColorLists == UNION {[1..n -> HexColors] : n \in 1..MaxListLen}

\* palette=None (with the current colour cycle), a list, or a name
Palettes ==
    {[kind |-> "None", colors |-> cs, name |-> ""] : cs \in ColorLists}
    \cup {[kind |-> "list", colors |-> cs, name |-> ""] : cs \in ColorLists}
    \cup {[kind |-> "name", colors |-> <<>>, name |-> nm] :
             nm \in DOMAIN QUAL_PALETTE_SIZES \cup {"hls", "husl"}
                    \cup CubehelixNames \cup MplCmapNames \cup InvalidNames}

InputsPalette ==
    [palette : Palettes, n_colors : {NoCount} \cup 0..MaxColors]

InitPalette ==
    /\ inp \in InputsPalette
    /\ out = Pending
    /\ prop_cycler = NoCycler
    /\ last = NoOp

CallColorPalette ==
    /\ out = Pending
    /\ out' = color_palette(inp)
    /\ UNCHANGED <<inp, prop_cycler, last>>

NextPalette == CallColorPalette

SpecPalette == InitPalette /\ [][NextPalette]_vars

\* the palette was given as colours: None, a list, or a seaborn name
C10_HasSource ==
    inp.palette.kind = "name" => inp.palette.name \in DOMAIN SEABORN_PALETTES

\* the source palette of the call
C10_Source ==
    IF inp.palette.kind = "name" THEN SEABORN_PALETTES[inp.palette.name]
    ELSE inp.palette.colors

\* C10: for a source palette of k >= 1 colours and n_colors >= 0 the
\* result has exactly n_colors entries, and entry i (counted from 0) is
\* source colour i mod k.
C10_AsManyAsAsked ==
    (Done /\ inp.n_colors >= 0 /\ out.status = "returned") =>
        /\ Len(out.palette) = inp.n_colors
        /\ C10_HasSource =>
               LET k == Len(C10_Source)
               IN  \A i \in 0..(inp.n_colors - 1) :
                       out.palette[i + 1] = to_rgb(C10_Source[(i % k) + 1])

\* five colours were asked of a list of two different colours
C10_Witness ==
    /\ Done
    /\ inp.palette.kind = "list"
    /\ Len(inp.palette.colors) = 2
    /\ inp.palette.colors[1] # inp.palette.colors[2]
    /\ inp.n_colors = 5
    /\ out.palette[5] = to_rgb(inp.palette.colors[1])

\* a palette was asked by a valid name without n_colors
C11_Named ==
    /\ Done
    /\ inp.palette.kind = "name"
    /\ inp.n_colors = NoCount
    /\ out.status = "returned"

\* C11: a palette given by name, of whatever kind, with n_colors=None has
\* 6 colours.
C11_NamedDefaultSix == C11_Named => Len(out.palette) = 6

====
